---- MODULE Spec2Model ----
(***************************************************************************)
(* h8man-finance: the fx service (services/fx/main.py) and the portfolio   *)
(* service (services/portfolio/*.py) as state machines.                    *)
(*                                                                         *)
(* Numbers.  Python floats are modelled as exact rationals [k, n, d] with  *)
(* k = "num" (n/d in lowest terms, d > 0), or the special values "nan" and *)
(* "inf".  Rounding of IEEE doubles is not modelled.                       *)
(* Holding quantities are fixed-point integers counted in units of 5e-10,  *)
(* so that the ledger's tolerance of 1e-9 is Eps = 2 units.                *)
(***************************************************************************)
EXTENDS Integers, Sequences, FiniteSets, TLC

VARIABLES
    now,        \* wall clock, unix seconds (time.time(), datetime.now)
    eodhdKey,   \* fx: EODHD_KEY, read from the environment at import
    cache,      \* fx: table cache(k PRIMARY KEY, v, ts)
    fxCall,     \* fx: the last get_usd_eur call: its parity (seq), force, when it ran,
                \* its outcome and the providers it called
    holdings,   \* portfolio: table holdings(symbol PRIMARY KEY, market, quantity, unit_cost_eur)
    txlog,      \* portfolio: table tx, in id order
    prices_cache, \* portfolio: table prices_cache, PRIMARY KEY(symbol, market)
    req,        \* portfolio: the POST /tx requests in flight, one per worker thread
    started,    \* portfolio: how many POST /tx requests have been accepted
    resp,       \* portfolio: how the POST /tx answered last ended ("ok" or the error)
    priceCall,  \* portfolio: the last get_price call of GET /price: its parity (seq),
                \* arguments, the provider's answer and its outcome
    snapshots,  \* portfolio: table snapshots, in id order
    valCall     \* portfolio: the last POST /snapshot or GET /compare: its parity (seq),
                \* arguments and outcome

fxVars == <<eodhdKey, cache, fxCall>>
pfVars == <<holdings, txlog, prices_cache, req, started, resp>>
valVars == <<priceCall, snapshots, valCall>>
vars == <<now, eodhdKey, cache, fxCall, holdings, txlog, prices_cache, req, started, resp,
          priceCall, snapshots, valCall>>

----------------------------------------------------------------------------
(* Floats                                                                  *)

RECURSIVE GCD(_, _)
GCD(a, b) == IF b = 0 THEN a ELSE GCD(b, a % b)

Abs(x) == IF x < 0 THEN -x ELSE x

\* n/d in lowest terms with a positive denominator
F(n, d) ==
    LET s == IF d < 0 THEN -1 ELSE 1
        g == GCD(Abs(n), Abs(d))
    IN  [k |-> "num", n |-> (s * n) \div g, d |-> (s * d) \div g]

NaN == [k |-> "nan", n |-> 0, d |-> 1]
Inf == [k |-> "inf", n |-> 1, d |-> 1]

IsNum(x) == x.k = "num"

\* x <= 0 as Python evaluates it: every comparison with nan is False
FLeqZero(x) == IsNum(x) /\ x.n <= 0

\* 1.0 / x for x that is not <= 0
FInv(x) ==
    CASE x.k = "nan" -> NaN
      [] x.k = "inf" -> F(0, 1)
      [] OTHER       -> F(x.d, x.n)

\* a positive finite number
PositiveFinite(x) == IsNum(x) /\ x.n > 0

\* x * k, x + y and x / k for an integer k # 0; nan propagates
FMulInt(x, k) == IF IsNum(x) THEN F(x.n * k, x.d) ELSE NaN
FAdd(x, y) == IF IsNum(x) /\ IsNum(y) THEN F(x.n * y.d + y.n * x.d, x.d * y.d) ELSE NaN
FDivInt(x, k) == IF IsNum(x) THEN F(x.n, x.d * k) ELSE NaN
FMul(x, y) == IF IsNum(x) /\ IsNum(y) THEN F(x.n * y.n, x.d * y.d) ELSE NaN

\* x - y, and x / y for y # 0
FSub(x, y) == IF IsNum(x) /\ IsNum(y) THEN F(x.n * y.d - y.n * x.d, x.d * y.d) ELSE NaN
FDiv(x, y) == IF IsNum(x) /\ IsNum(y) THEN F(x.n * y.d, x.d * y.n) ELSE NaN

NoneF == [k |-> "none", n |-> 0, d |-> 1]

----------------------------------------------------------------------------
(* JSON values as the providers return them                                *)

JNull    == [t |-> "null", f |-> NoneF]
JNum(x)  == [t |-> "num", f |-> x]
JText    == [t |-> "text", f |-> NoneF]   \* a string float() cannot parse

\* Python truthiness: None and 0 are falsy, nan and non-empty strings truthy
Truthy(j) ==
    CASE j.t = "null" -> FALSE
      [] j.t = "text" -> TRUE
      [] OTHER        -> ~(IsNum(j.f) /\ j.f.n = 0)

\* a or b
PyOr(a, b) == IF Truthy(a) THEN a ELSE b

----------------------------------------------------------------------------
(* fx service: configuration and bounds                                    *)

FX_TTL_SEC == 82800

\* the clock is observed at k * FX_TTL_SEC + j, k <= MaxEpochs, j <= MaxDrift
MaxEpochs == 2
MaxDrift  == 2
ClockSteps == {1, FX_TTL_SEC}

FxKey == "fx:USD_EUR"

EodhdKeys == {"", "token"}

\* what GET eodhd.com/api/real-time/EURUSD.FOREX can answer
PrimaryResponses ==
    { [net |-> "exception", status |-> 0, close |-> JNull, price |-> JNull, last |-> JNull],
      [net |-> "ok", status |-> 500, close |-> JNull, price |-> JNull, last |-> JNull] }
    \cup
    { [net |-> "ok", status |-> 200, close |-> c, price |-> JNull, last |-> JNull] :
        c \in { JNum(F(5, 4)), JNum(F(0, 1)), JNum(F(-1, 1)), JNum(NaN), JNum(Inf),
                JNull, JText } }
    \cup
    { [net |-> "ok", status |-> 200, close |-> JNum(F(0, 1)), price |-> JNull,
       last |-> JNum(F(10, 9))] }

\* what GET api.exchangerate.host/latest?base=USD&symbols=EUR can answer
SecondaryResponses ==
    { [net |-> "exception", status |-> 0, eur |-> JNull],
      [net |-> "ok", status |-> 500, eur |-> JNull] }
    \cup
    { [net |-> "ok", status |-> 200, eur |-> e] :
        e \in { JNum(F(23, 25)), JNum(F(0, 1)), JNum(NaN), JNull, JText } }

----------------------------------------------------------------------------
(* fx service: sqlite cache                                                *)

\* json.dumps(payload): the payload's fields in the order FxResp declares them
JsonDumps(payload) ==
    <<payload.pair, payload.rate, payload.source, payload.fetched_at, payload.ttl_sec>>

\* json.loads(v)
JsonLoads(v) ==
    [pair |-> v[1], rate |-> v[2], source |-> v[3], fetched_at |-> v[4], ttl_sec |-> v[5]]

\* a cache_get that already expires an entry whose age equals the TTL
ExpiredAtTtl(t, ts, ttl) == t - ts >= ttl

\* int(time.time()) - int(ts) > ttl
Expired(t, ts, ttl) == t - ts > ttl

\* cache_get(key, ttl): <<>> for None, <<payload>> otherwise
cache_get(c, t, key, ttl) ==
    IF key \notin DOMAIN c THEN <<>>
    ELSE IF Expired(t, c[key].ts, ttl) THEN <<>>
    ELSE <<JsonLoads(c[key].v)>>

\* cache_put(key, payload): REPLACE INTO cache(k, v, ts)
cache_put(c, t, key, payload) ==
    [k \in DOMAIN c \cup {key} |->
        IF k = key THEN [v |-> JsonDumps(payload), ts |-> t] ELSE c[k]]

----------------------------------------------------------------------------
(* fx service: providers                                                   *)

Failed(src) == [rate |-> NoneF, src |-> src]

fetch_usdeur_from_eodhd(key, r) ==
    IF key = "" THEN Failed("missing_eodhd_key")
    ELSE IF r.net = "exception" THEN Failed("eodhd_exception")
    ELSE IF r.status # 200 THEN Failed("eodhd_http")
    ELSE LET close  == PyOr(PyOr(r.close, r.price), r.last)
             eurusd == IF close.t = "null" THEN F(0, 1) ELSE close.f
         IN  IF close.t = "text" THEN Failed("eodhd_exception")
             ELSE IF FLeqZero(eurusd) THEN Failed("eodhd_bad_price")
             ELSE [rate |-> FInv(eurusd), src |-> "eodhd"]

fetch_usdeur_from_ecb(r) ==
    IF r.net = "exception" THEN Failed("ecb_exception")
    ELSE IF r.status # 200 THEN Failed("ecb_http")
    ELSE IF r.eur.t = "null" THEN Failed("ecb_no_rate")
    ELSE IF r.eur.t = "text" THEN Failed("ecb_exception")
    ELSE IF FLeqZero(r.eur.f) THEN Failed("ecb_bad_rate")
    ELSE [rate |-> r.eur.f, src |-> "exchangerate.host-ecb"]

\* rate is None
IsNone(rate) == rate.k = "none"

\* the fallback chain of get_usd_eur: the result and the providers called
FetchChain(key, p, s) ==
    LET first == fetch_usdeur_from_eodhd(key, p)
    IN  IF IsNone(first.rate)
        THEN [got |-> fetch_usdeur_from_ecb(s), calls |-> <<"eodhd", "ecb">>]
        ELSE [got |-> first, calls |-> <<"eodhd">>]

\* the cache lookup of get_usd_eur
Lookup(c, t, force) == IF force THEN <<>> ELSE cache_get(c, t, FxKey, FX_TTL_SEC)

\* FxResp(pair="USD_EUR", rate=rate, source=src or "unknown", ...).dict()
MakePayload(t, got) ==
    [pair |-> "USD_EUR", rate |-> got.rate,
     source |-> IF got.src = "" THEN "unknown" ELSE got.src,
     fetched_at |-> t, ttl_sec |-> FX_TTL_SEC]

\* no GET /price, POST /snapshot or GET /compare has been served
NoPriceCall == [seq |-> 0, symbol |-> "", market |-> "", at |-> 0, r |-> <<>>,
                ok |-> FALSE, called |-> FALSE, res |-> <<>>]
NoValCall   == [seq |-> 0, op |-> "", scope |-> "", symbol |-> <<>>, failing |-> {},
                ok |-> FALSE, value |-> <<>>, result |-> <<>>]

NoCall == [seq |-> 0, force |-> FALSE, at |-> 0, status |-> 0, hit |-> FALSE, body |-> <<>>, calls |-> <<>>]

\* GET /fx?pair=USD_EUR&force=..., GET /fx/usd-eur
GetUsdEur(force, p, s) ==
    LET cached == Lookup(cache, now, force)
        chain  == FetchChain(eodhdKey, p, s)
        payload == MakePayload(now, chain.got)
    IN  /\ IF cached # <<>>
           THEN /\ fxCall' = [seq |-> 1 - fxCall.seq, force |-> force, at |-> now,
                              status |-> 200, hit |-> TRUE, body |-> cached,
                              calls |-> <<>>]
                /\ cache' = cache
           ELSE IF IsNone(chain.got.rate)
           THEN /\ fxCall' = [seq |-> 1 - fxCall.seq, force |-> force, at |-> now,
                              status |-> 502, hit |-> FALSE, body |-> <<>>,
                              calls |-> chain.calls]
                /\ cache' = cache
           ELSE /\ fxCall' = [seq |-> 1 - fxCall.seq, force |-> force, at |-> now,
                              status |-> 200, hit |-> FALSE, body |-> <<payload>>,
                              calls |-> chain.calls]
                /\ cache' = cache_put(cache, now, FxKey, payload)
        /\ UNCHANGED <<now, eodhdKey>>
        /\ UNCHANGED pfVars
        /\ UNCHANGED valVars

\* time passes
Tick(d) ==
    /\ (now + d) \div FX_TTL_SEC <= MaxEpochs
    /\ (now + d) % FX_TTL_SEC <= MaxDrift
    /\ now' = now + d
    /\ UNCHANGED <<eodhdKey, cache, fxCall>>
    /\ UNCHANGED pfVars
    /\ UNCHANGED valVars

FxInit ==
    /\ now = 0
    /\ eodhdKey \in EodhdKeys
    /\ cache = << >>
    /\ fxCall = NoCall
    /\ holdings = << >>
    /\ txlog = << >>
    /\ prices_cache = << >>
    /\ req = << >>
    /\ started = 0
    /\ resp = ""
    /\ priceCall = NoPriceCall
    /\ snapshots = << >>
    /\ valCall = NoValCall

FxNext ==
    \/ \E force \in BOOLEAN, p \in PrimaryResponses, s \in SecondaryResponses :
          GetUsdEur(force, p, s)
    \/ \E d \in ClockSteps : Tick(d)

SpecFx == FxInit /\ [][FxNext]_vars

----------------------------------------------------------------------------
(* fx service: properties                                                  *)

\* the entry under "fx:USD_EUR" is present and its age is within the TTL
FreshEntry == FxKey \in DOMAIN cache /\ now - cache[FxKey].ts <= FX_TTL_SEC

\* the provider answered with a positive finite number (section 4.2 of the
\* specification: anything else is a provider failure)
PrimarySupplies(key, p) ==
    /\ key # ""
    /\ p.net = "ok" /\ p.status = 200
    /\ LET v == PyOr(PyOr(p.close, p.price), p.last)
       IN  v.t = "num" /\ PositiveFinite(v.f) /\ PositiveFinite(FInv(v.f))

SecondarySupplies(s) ==
    /\ s.net = "ok" /\ s.status = 200
    /\ s.eur.t = "num" /\ PositiveFinite(s.eur.f)

\* C8: get_usd_eur(force=false) answers from the cache, unchanged and without
\* calling a provider, while the stored entry's age is within the TTL; once the
\* TTL has elapsed (or nothing is stored) it calls the primary provider, and a
\* successful fetch replaces the entry with the payload it returns.
C8_CacheHitUntilTtl ==
    [][(fxCall'.seq # fxCall.seq /\ ~fxCall'.force) =>
            IF FreshEntry
            THEN /\ fxCall'.status = 200
                 /\ fxCall'.calls = <<>>
                 /\ fxCall'.body = <<JsonLoads(cache[FxKey].v)>>
                 /\ cache' = cache
            ELSE /\ Len(fxCall'.calls) >= 1
                 /\ fxCall'.calls[1] = "eodhd"
                 /\ fxCall'.status = 200 =>
                       /\ cache'[FxKey].ts = now
                       /\ fxCall'.body[1].fetched_at = now
                       /\ <<JsonLoads(cache'[FxKey].v)>> = fxCall'.body
                       /\ cache'[FxKey].v = JsonDumps(fxCall'.body[1])]_vars

\* a call answered from an entry whose age is exactly the TTL
C8_Witness ==
    /\ fxCall.hit
    /\ FxKey \in DOMAIN cache
    /\ fxCall.at - cache[FxKey].ts = FX_TTL_SEC

\* C9: on a miss or force=true the primary provider is called first, the
\* secondary if and only if the primary failed, and the payload returned and
\* cached names the provider that supplied the rate.
C9_FallbackIffPrimaryFailed ==
    [][\A force \in BOOLEAN, p \in PrimaryResponses, s \in SecondaryResponses :
         (GetUsdEur(force, p, s) /\ (force \/ ~FreshEntry)) =>
            /\ Len(fxCall'.calls) >= 1
            /\ fxCall'.calls[1] = "eodhd"
            /\ (Len(fxCall'.calls) = 2) <=> ~PrimarySupplies(eodhdKey, p)
            /\ Len(fxCall'.calls) = 2 => fxCall'.calls[2] = "ecb"
            /\ fxCall'.status = 200 =>
                  /\ fxCall'.body[1].source =
                        IF PrimarySupplies(eodhdKey, p) THEN "eodhd"
                        ELSE "exchangerate.host-ecb"
                  /\ JsonLoads(cache'[FxKey].v).source = fxCall'.body[1].source]_vars

\* C10: when both providers fail the call fails with 502 and the cache entry
\* is what it was before the call, with force=true as well.
C10_BothFailNoCacheWrite ==
    [][\A force \in BOOLEAN, p \in PrimaryResponses, s \in SecondaryResponses :
         (/\ GetUsdEur(force, p, s)
          /\ (force \/ ~FreshEntry)
          /\ ~PrimarySupplies(eodhdKey, p)
          /\ ~SecondarySupplies(s)) =>
            /\ fxCall'.status = 502
            /\ cache' = cache]_vars

\* C11: every rate get_usd_eur returns or writes to the cache is a positive
\* finite number (a provider value that is not one counts as that provider's
\* failure).
C11_RatePositiveFinite ==
    /\ FxKey \in DOMAIN cache => PositiveFinite(JsonLoads(cache[FxKey].v).rate)
    /\ (fxCall.status = 200 /\ fxCall.body # <<>>) => PositiveFinite(fxCall.body[1].rate)

----------------------------------------------------------------------------
(* portfolio service: configuration and bounds                             *)

\* 1e-9, in quantity units of 5e-10
Eps == 2

PRICE_TTL_SEC == 60

\* DEFAULT_USD_EUR = 0.92
DEFAULT_USD_EUR == F(23, 25)

\* POST /tx requests accepted in one run
MaxTx == 2

\* worker threads serving POST /tx
Workers == {1, 2}

Symbols == {"AAA", "BBB"}
Markets == {"US", "XETRA"}

\* the symbol POST /tx bodies name, and the market they give for a symbol
TxSymbols == {"AAA"}
MarketOf(symbol) == IF symbol = "AAA" THEN "US" ELSE "XETRA"

\* TxIn: type is validated, quantity and price_eur are any float
Quantities == {-3, 1, 10}
TxPrices == {F(100, 1), F(200, 1), NaN}
TxInputs ==
    { [type |-> ty, symbol |-> sy, market |-> MarketOf(sy), quantity |-> q, price_eur |-> pr] :
        ty \in {"buy", "sell"}, sy \in TxSymbols, q \in Quantities, pr \in TxPrices }

\* what GET eodhd.com/api/real-time/{symbol}.{market} answers while POST /tx
\* computes its totals
TotalsQuotes ==
    { [net |-> "exception", status |-> 0, close |-> JNull, previousClose |-> JNull,
       timestamp |-> JNull],
      [net |-> "ok", status |-> 200, close |-> JNum(F(50, 1)), previousClose |-> JNull,
       timestamp |-> JNull] }

----------------------------------------------------------------------------
(* portfolio service: storage.py                                           *)

\* sqlite3 binds a float nan as NULL, which a NOT NULL column rejects
BindsNull(x) == x.k = "nan"

\* SELECT quantity, unit_cost_eur FROM holdings WHERE symbol=?  (fetchone)
SelectHolding(h, symbol) ==
    IF symbol \in DOMAIN h
    THEN <<[quantity |-> h[symbol].quantity, unit_cost_eur |-> h[symbol].unit_cost_eur]>>
    ELSE <<>>

\* a sell branch that never finds the quantity insufficient
ExceedsNever(new_qty) == FALSE

\* new_qty < -1e-9
Exceeds(new_qty) == new_qty < -Eps

\* a buy branch that adds the price unweighted by the quantity bought
BuyUnweighted(old_qty, old_uc, qty_delta, price_eur) ==
    LET new_qty == old_qty + qty_delta
    IN  [quantity |-> new_qty,
         unit_cost_eur |->
            IF new_qty <= 0 THEN F(0, 1)
            ELSE FDivInt(FAdd(FMulInt(old_uc, old_qty), price_eur), new_qty)]

\* lines 88-93: the buy branch on an existing row
BuyOnto(old_qty, old_uc, qty_delta, price_eur) ==
    LET new_qty == old_qty + qty_delta
    IN  [quantity |-> new_qty,
         unit_cost_eur |->
            IF new_qty <= 0 THEN F(0, 1)
            ELSE FDivInt(FAdd(FMulInt(old_uc, old_qty), FMulInt(price_eur, qty_delta)),
                         new_qty)]

\* a sell branch that clears the cost basis of every position it touches
SellDropsCost(old_qty, old_uc, qty_delta) ==
    [quantity |-> old_qty - qty_delta, unit_cost_eur |-> F(0, 1)]

\* a sell branch that keeps the cost basis of a closed position
SellKeepsCost(old_qty, old_uc, qty_delta) ==
    [quantity |-> old_qty - qty_delta, unit_cost_eur |-> old_uc]

\* lines 95-98: the sell branch on an existing row, once the quantity suffices
SellFrom(old_qty, old_uc, qty_delta) ==
    LET new_qty == old_qty - qty_delta
    IN  [quantity |-> new_qty,
         unit_cost_eur |-> IF new_qty > 0 THEN old_uc ELSE F(0, 1)]

\* the row put by INSERT / UPDATE holdings
PutHolding(h, symbol, market, quantity, unit_cost) ==
    [k \in DOMAIN h \cup {symbol} |->
        IF k = symbol
        THEN [market |-> market, quantity |-> quantity, unit_cost_eur |-> unit_cost]
        ELSE h[k]]

\* lines 78-84 without the test of tx_type: a sell opens a position too
InsertAnyType(h, inp) ==
    IF inp.symbol \in DOMAIN h \/ BindsNull(inp.price_eur)
    THEN [err |-> "IntegrityError", h |-> h]
    ELSE [err |-> "",
          h |-> PutHolding(h, inp.symbol, inp.market, inp.quantity, inp.price_eur)]

\* lines 78-84: no row was selected
InsertBranch(h, inp) ==
    IF inp.type = "sell"
    THEN [err |-> "InvalidSell", h |-> h]
    ELSE IF inp.symbol \in DOMAIN h \/ BindsNull(inp.price_eur)
    THEN [err |-> "IntegrityError", h |-> h]
    ELSE [err |-> "",
          h |-> PutHolding(h, inp.symbol, inp.market, inp.quantity, inp.price_eur)]

\* lines 85-100: a row was selected
UpdateBranch(h, old, inp) ==
    IF inp.type = "sell" /\ Exceeds(old.quantity - inp.quantity)
    THEN [err |-> "InsufficientQuantity", h |-> h]
    ELSE LET new == IF inp.type = "buy"
                    THEN BuyOnto(old.quantity, old.unit_cost_eur, inp.quantity,
                                 inp.price_eur)
                    ELSE SellFrom(old.quantity, old.unit_cost_eur, inp.quantity)
         IN  IF BindsNull(new.unit_cost_eur)
             THEN [err |-> "IntegrityError", h |-> h]
             ELSE [err |-> "",
                   h |-> PutHolding(h, inp.symbol, inp.market, new.quantity,
                                    new.unit_cost_eur)]

\* upsert_holding after its SELECT returned row: the error raised ("" for
\* none) and the holdings table after commit or rollback
UpsertWrite(h, row, inp) ==
    IF row = <<>> THEN InsertBranch(h, inp) ELSE UpdateBranch(h, row[1], inp)

\* record_tx: INSERT INTO tx
RecordTx(log, inp) ==
    IF BindsNull(inp.price_eur)
    THEN [err |-> "IntegrityError", log |-> log]
    ELSE [err |-> "", log |-> Append(log, inp)]

\* get_price_cache: SELECT ... WHERE symbol=? AND market=?
get_price_cache(c, symbol, market) ==
    IF <<symbol, market>> \in DOMAIN c THEN <<c[<<symbol, market>>]>> ELSE <<>>

\* set_price_cache: INSERT ... ON CONFLICT(symbol,market) DO UPDATE
set_price_cache(c, symbol, market, price, ccy, fetched_at, source) ==
    [k \in DOMAIN c \cup {<<symbol, market>>} |->
        IF k = <<symbol, market>>
        THEN [price |-> price, ccy |-> ccy, fetched_at |-> fetched_at, source |-> source]
        ELSE c[k]]

----------------------------------------------------------------------------
(* portfolio service: prices.py                                            *)

\* datetime.isoformat() and dateutil's isoparse, on whole seconds
IsoFormat(t) == <<"iso8601", t>>
IsoParse(text) == text[2]

\* an eodhd_quote that answers a failure with a price of 0 instead of raising
RaisedAsZero ==
    [ok |-> TRUE, price |-> F(0, 1), ccy |-> "EUR", ts_iso |-> IsoFormat(0),
     source |-> "eodhd_realtime"]

Raised == [ok |-> FALSE, price |-> NoneF, ccy |-> "", ts_iso |-> IsoFormat(0), source |-> ""]

\* eodhd_quote(symbol, market) given the provider's answer r, at time t
eodhd_quote(market, r, t) ==
    IF r.net = "exception" \/ r.status >= 400 THEN Raised
    ELSE LET price == PyOr(r.close, r.previousClose)
             ts    == r.timestamp
         IN  IF ts.t = "num" /\ ~IsNum(ts.f) THEN Raised
             ELSE IF price.t # "num" THEN Raised
             ELSE [ok |-> TRUE, price |-> price.f,
                   ccy |-> IF market = "US" THEN "USD" ELSE "EUR",
                   ts_iso |-> IF ts.t = "num" THEN IsoFormat(ts.f.n \div ts.f.d)
                              ELSE IsoFormat(t),
                   source |-> "eodhd_realtime"]

\* fx_usd_eur(): GET {FX_BASE_URL}/latest is no route of the fx service, so
\* raise_for_status raises and the except branch answers
fx_usd_eur == DEFAULT_USD_EUR

\* a freshness test that still accepts a row whose age equals the TTL
PriceFreshAtTtl(t, fetched_at) == t - IsoParse(fetched_at) <= PRICE_TTL_SEC

\* age < PRICE_TTL_SEC
PriceFresh(t, fetched_at) == t - IsoParse(fetched_at) < PRICE_TTL_SEC

\* a get_price that reports a USD price unconverted
PriceResultUnconverted(price, ccy, source, fetched_at) ==
    [price |-> price, ccy |-> ccy, price_eur |-> price,
     fx_used |-> IF ccy = "EUR" THEN NoneF ELSE fx_usd_eur,
     source |-> source, fetched_at |-> fetched_at]

PriceResult(price, ccy, source, fetched_at) ==
    [price |-> price, ccy |-> ccy,
     price_eur |-> IF ccy = "EUR" THEN price ELSE FMul(price, fx_usd_eur),
     fx_used |-> IF ccy = "EUR" THEN NoneF ELSE fx_usd_eur,
     source |-> source, fetched_at |-> fetched_at]

\* get_price(symbol, market): ok, the price cache afterwards, the result and
\* whether the quote provider was called
get_price(c, t, symbol, market, r) ==
    LET cached == get_price_cache(c, symbol, market)
        quote  == eodhd_quote(market, r, t)
    IN  IF cached # <<>> /\ PriceFresh(t, cached[1].fetched_at)
        THEN [ok |-> TRUE, cache |-> c, called |-> FALSE,
              res |-> <<PriceResult(cached[1].price, cached[1].ccy,
                                    <<"cache", cached[1].source>>, cached[1].fetched_at)>>]
        ELSE IF ~quote.ok \/ BindsNull(quote.price)
        THEN [ok |-> FALSE, cache |-> c, called |-> TRUE, res |-> <<>>]
        ELSE [ok |-> TRUE, called |-> TRUE,
              cache |-> set_price_cache(c, symbol, market, quote.price, quote.ccy,
                                        quote.ts_iso, quote.source),
              res |-> <<PriceResult(quote.price, quote.ccy, <<quote.source>>,
                                    quote.ts_iso)>>]

----------------------------------------------------------------------------
(* portfolio service: main.py                                              *)

\* ORDER BY symbol
SymbolOrder == <<"AAA", "BBB">>

\* portfolio(with_prices=True) from the i-th holding on: ok and the price
\* cache afterwards; quotes[symbol] is what the provider answers for it
RECURSIVE PortfolioFrom(_, _, _, _, _)
PortfolioFrom(i, h, c, t, quotes) ==
    IF i > Len(SymbolOrder) THEN [ok |-> TRUE, cache |-> c]
    ELSE LET symbol == SymbolOrder[i]
         IN  IF symbol \notin DOMAIN h \/ h[symbol].quantity = 0
             THEN PortfolioFrom(i + 1, h, c, t, quotes)
             ELSE LET q == get_price(c, t, symbol, h[symbol].market, quotes[symbol])
                  IN  IF ~q.ok THEN [ok |-> FALSE, cache |-> q.cache]
                      ELSE PortfolioFrom(i + 1, h, q.cache, t, quotes)

NoInput == [type |-> "", symbol |-> "", market |-> "", quantity |-> 0, price_eur |-> F(0, 1)]

\* a worker between requests
Idle == [pc |-> "idle", inp |-> NoInput, row |-> <<>>, before |-> <<>>]

\* what a request that arrives with no other request in flight remembers of
\* its arrival, for the properties: the two tables as they were, and its number
Arrival(w) ==
    IF \A v \in Workers \ {w} : req[v].pc = "idle"
    THEN <<[h |-> holdings, log |-> txlog, n |-> started + 1]>>
    ELSE <<>>

\* POST /tx arrives: TxIn validates, upsert_holding runs its SELECT
TxBegin(w, inp) ==
    /\ req[w].pc = "idle"
    /\ started < MaxTx
    /\ started' = started + 1
    /\ req' = [req EXCEPT ![w] = [pc |-> "write", inp |-> inp,
                                  row |-> SelectHolding(holdings, inp.symbol),
                                  before |-> Arrival(w)]]
    /\ UNCHANGED <<now, holdings, txlog, prices_cache, resp>>
    /\ UNCHANGED fxVars
    /\ UNCHANGED valVars

\* upsert_holding raises, or runs its INSERT / UPDATE and commits
TxWrite(w) ==
    /\ req[w].pc = "write"
    /\ LET u == UpsertWrite(holdings, req[w].row, req[w].inp)
       IN  /\ holdings' = u.h
           /\ req' = [req EXCEPT ![w] =
                        IF u.err = "" THEN [@ EXCEPT !.pc = "record"] ELSE Idle]
           /\ resp' = IF u.err = "" THEN resp ELSE u.err
    /\ UNCHANGED <<now, txlog, prices_cache, started>>
    /\ UNCHANGED fxVars
    /\ UNCHANGED valVars

\* record_tx(inp.model_dump())
TxRecord(w) ==
    /\ req[w].pc = "record"
    /\ LET r == RecordTx(txlog, req[w].inp)
       IN  /\ txlog' = r.log
           /\ req' = [req EXCEPT ![w] =
                        IF r.err = "" THEN [@ EXCEPT !.pc = "totals"] ELSE Idle]
           /\ resp' = IF r.err = "" THEN resp ELSE r.err
    /\ UNCHANGED <<now, holdings, prices_cache, started>>
    /\ UNCHANGED fxVars
    /\ UNCHANGED valVars

\* pf = portfolio(with_prices=True), then the response
TxTotals(w, quotes) ==
    /\ req[w].pc = "totals"
    /\ LET pf == PortfolioFrom(1, holdings, prices_cache, now, quotes)
       IN  /\ prices_cache' = pf.cache
           /\ req' = [req EXCEPT ![w] = Idle]
           /\ resp' = IF pf.ok THEN "ok" ELSE "QuoteUnavailable"
    /\ UNCHANGED <<now, holdings, txlog, started>>
    /\ UNCHANGED fxVars
    /\ UNCHANGED valVars

\* the database a start of the service can find: empty, or one open position
\* with the transaction that opened it
InitialLedgers ==
    { [h |-> << >>, log |-> << >>],
      [h |-> PutHolding(<< >>, "AAA", "US", 10, F(100, 1)),
       log |-> <<[type |-> "buy", symbol |-> "AAA", market |-> "US", quantity |-> 10,
                  price_eur |-> F(100, 1)]>>] }

TxInit ==
    /\ now = 0
    /\ eodhdKey = "token"
    /\ cache = << >>
    /\ fxCall = NoCall
    /\ \E l \in InitialLedgers : holdings = l.h /\ txlog = l.log
    /\ prices_cache = << >>
    /\ req = [w \in Workers |-> Idle]
    /\ started = 0
    /\ resp = ""
    /\ priceCall = NoPriceCall
    /\ snapshots = << >>
    /\ valCall = NoValCall

TxNext ==
    \/ \E w \in Workers, inp \in TxInputs : TxBegin(w, inp)
    \/ \E w \in Workers : TxWrite(w)
    \/ \E w \in Workers : TxRecord(w)
    \/ \E w \in Workers, quotes \in [DOMAIN holdings -> TotalsQuotes] : TxTotals(w, quotes)

SpecTx == TxInit /\ [][TxNext]_vars

----------------------------------------------------------------------------
(* portfolio service: GET /price                                           *)

\* the clock when the service starts, and how far it is observed: at
\* PriceStart + k * (PRICE_TTL_SEC - 1) + j, k <= MaxPriceEpochs, j <= MaxPriceDrift
PriceStart     == 1000
MaxPriceEpochs == 1
MaxPriceDrift  == 2
PriceClockSteps == {1, PRICE_TTL_SEC - 1}

\* the symbol GET /price is asked for
PriceSymbols == {"AAA"}

\* what GET eodhd.com/api/real-time/{symbol}.{market} can answer: the quote's
\* timestamp is absent, or lies 100 s before the service started
PriceQuotes ==
    { [net |-> "exception", status |-> 0, close |-> JNull, previousClose |-> JNull,
       timestamp |-> JNull],
      [net |-> "ok", status |-> 500, close |-> JNull, previousClose |-> JNull,
       timestamp |-> JNull],
      [net |-> "ok", status |-> 200, close |-> JNull, previousClose |-> JNull,
       timestamp |-> JNull],
      [net |-> "ok", status |-> 200, close |-> JNum(NaN), previousClose |-> JNull,
       timestamp |-> JNull],
      [net |-> "ok", status |-> 200, close |-> JNum(F(0, 1)), previousClose |-> JNum(F(40, 1)),
       timestamp |-> JNull] }
    \cup
    { [net |-> "ok", status |-> 200, close |-> JNum(F(100, 1)), previousClose |-> JNull,
       timestamp |-> ts] : ts \in {JNull, JNum(F(PriceStart - 100, 1))} }

\* the cache table of the fx service while the portfolio service runs: empty,
\* or the rate 0.8 the primary provider supplied when the service started
FxCaches ==
    { << >>,
      cache_put(<< >>, PriceStart, FxKey,
                MakePayload(PriceStart, [rate |-> F(4, 5), src |-> "eodhd"])) }

\* GET /price?symbol=...&market=...
GetPrice(symbol, market, r) ==
    /\ \E g \in {get_price(prices_cache, now, symbol, market, r)} :
           /\ prices_cache' = g.cache
           /\ priceCall' = [seq |-> 1 - priceCall.seq, symbol |-> symbol,
                            market |-> market, at |-> now, r |-> <<r>>,
                            ok |-> g.ok, called |-> g.called, res |-> g.res]
    /\ UNCHANGED <<now, holdings, txlog, req, started, resp, snapshots, valCall>>
    /\ UNCHANGED fxVars

\* time passes
PriceTick(d) ==
    /\ (now + d - PriceStart) \div (PRICE_TTL_SEC - 1) <= MaxPriceEpochs
    /\ (now + d - PriceStart) % (PRICE_TTL_SEC - 1) <= MaxPriceDrift
    /\ now' = now + d
    /\ UNCHANGED fxVars
    /\ UNCHANGED pfVars
    /\ UNCHANGED valVars

PriceInit ==
    /\ now = PriceStart
    /\ eodhdKey = "token"
    /\ cache \in FxCaches
    /\ fxCall = NoCall
    /\ holdings = << >>
    /\ txlog = << >>
    /\ prices_cache = << >>
    /\ req = [w \in Workers |-> Idle]
    /\ started = 0
    /\ resp = ""
    /\ priceCall = NoPriceCall
    /\ snapshots = << >>
    /\ valCall = NoValCall

PriceNext ==
    \/ \E symbol \in PriceSymbols, market \in Markets, r \in PriceQuotes :
          GetPrice(symbol, market, r)
    \/ \E d \in PriceClockSteps : PriceTick(d)

SpecPrice == PriceInit /\ [][PriceNext]_vars

----------------------------------------------------------------------------
(* portfolio service: compare.py, POST /snapshot and GET /compare          *)

\* rows POST /snapshot saves in one run, and how often the price TTL elapses
MaxSnapshots == 2
MaxValTtls   == 1

\* scope, and symbol: <<>> for None (the whole portfolio), <<s>> for a symbol
ValScopes  == {"daily", "weekly"}
ValFilters == {<<>>, <<"AAA">>}

\* what the quote provider answers for the holdings during a valuation: the
\* request fails, or quotes AAA at 50 or 100 and BBB at 100
ValQuotes ==
    { [net |-> "exception", status |-> 0, close |-> JNull, previousClose |-> JNull,
       timestamp |-> JNull] }
    \cup
    { [net |-> "ok", status |-> 200, close |-> JNum(F(c, 1)), previousClose |-> JNull,
       timestamp |-> JNull] : c \in {50, 100} }
ValQuoteMaps(asked) ==
    { q \in [asked -> ValQuotes] : "BBB" \in asked => q["BBB"].close # JNum(F(50, 1)) }

\* the symbols whose quote request fails
Failing(quotes) == { sy \in DOMAIN quotes : quotes[sy].net = "exception" }

\* the holdings valued: two open positions, or one open and one flat
ValLedgers ==
    { PutHolding(PutHolding(<< >>, "AAA", "US", 10, F(100, 1)), "BBB", "XETRA", q, F(0, 1)) :
        q \in {0, 5} }

\* the holdings a valuation asks the provider about: those it includes
\* (symbol_filter, quantity # 0) that have no fresh row in the price cache
Asked(h, c, t, symbol_filter) ==
    { sy \in DOMAIN h :
        /\ symbol_filter = <<>> \/ symbol_filter[1] = sy
        /\ h[sy].quantity # 0
        /\ LET cached == get_price_cache(c, sy, h[sy].market)
           IN  cached = <<>> \/ ~PriceFresh(t, cached[1].fetched_at) }

\* a valuation that leaves out a holding whose quote fails
RECURSIVE portfolio_value_skipping(_, _, _, _, _, _, _)
portfolio_value_skipping(i, h, c, t, symbol_filter, quotes, total) ==
    IF i > Len(SymbolOrder) THEN [ok |-> TRUE, total |-> total, cache |-> c]
    ELSE LET symbol == SymbolOrder[i]
         IN  IF \/ symbol \notin DOMAIN h
                \/ (symbol_filter # <<>> /\ symbol # symbol_filter[1])
                \/ h[symbol].quantity = 0
             THEN portfolio_value_skipping(i + 1, h, c, t, symbol_filter, quotes, total)
             ELSE CHOOSE out \in
                    { IF ~p.ok
                      THEN portfolio_value_skipping(i + 1, h, p.cache, t, symbol_filter,
                                                    quotes, total)
                      ELSE portfolio_value_skipping(
                              i + 1, h, p.cache, t, symbol_filter, quotes,
                              FAdd(total, FMulInt(p.res[1].price_eur, h[symbol].quantity)))
                      : p \in {get_price(c, t, symbol, h[symbol].market, quotes[symbol])}
                    } : TRUE

\* portfolio_value_now(symbol_filter) from the i-th holding on, total so far:
\* ok, the total and the price cache afterwards (p, the result of get_price, is
\* bound through a singleton set so that it is evaluated once)
RECURSIVE portfolio_value_now(_, _, _, _, _, _, _)
portfolio_value_now(i, h, c, t, symbol_filter, quotes, total) ==
    IF i > Len(SymbolOrder) THEN [ok |-> TRUE, total |-> total, cache |-> c]
    ELSE LET symbol == SymbolOrder[i]
         IN  IF \/ symbol \notin DOMAIN h
                \/ (symbol_filter # <<>> /\ symbol # symbol_filter[1])
                \/ h[symbol].quantity = 0
             THEN portfolio_value_now(i + 1, h, c, t, symbol_filter, quotes, total)
             ELSE CHOOSE out \in
                    { IF ~p.ok THEN [ok |-> FALSE, total |-> NoneF, cache |-> p.cache]
                      ELSE portfolio_value_now(
                              i + 1, h, p.cache, t, symbol_filter, quotes,
                              FAdd(total, FMulInt(p.res[1].price_eur, h[symbol].quantity)))
                      : p \in {get_price(c, t, symbol, h[symbol].market, quotes[symbol])}
                    } : TRUE

\* COALESCE(symbol, '')
Coalesce(symbol) == IF symbol = <<>> THEN "" ELSE symbol[1]

\* a lookup ordered by ts ascending: the oldest matching row
get_oldest_snapshot(snaps, scope, symbol) ==
    LET matching == { i \in DOMAIN snaps :
                        /\ snaps[i].scope = scope
                        /\ Coalesce(snaps[i].symbol) = Coalesce(symbol) }
        oldest   == { i \in matching :
                        \A j \in matching : IsoParse(snaps[i].ts) <= IsoParse(snaps[j].ts) }
    IN  IF matching = {} THEN <<>> ELSE <<snaps[CHOOSE i \in oldest : TRUE]>>

\* get_latest_snapshot(scope, symbol): <<>> for None, <<row>> otherwise
get_latest_snapshot(snaps, scope, symbol) ==
    LET matching == { i \in DOMAIN snaps :
                        /\ snaps[i].scope = scope
                        /\ Coalesce(snaps[i].symbol) = Coalesce(symbol) }
        latest   == { i \in matching :
                        \A j \in matching : IsoParse(snaps[j].ts) <= IsoParse(snaps[i].ts) }
    IN  IF matching = {} THEN <<>> ELSE <<snaps[CHOOSE i \in latest : TRUE]>>

\* a save that keeps one row per (scope, symbol): it overwrites the last row
\* when that row has the same scope and symbol
save_snapshot_dedup(snaps, t, scope, symbol, value_eur) ==
    LET row == [ts |-> IsoFormat(t), scope |-> scope, symbol |-> symbol,
                value_eur |-> value_eur]
    IN  IF /\ snaps # << >>
           /\ snaps[Len(snaps)].scope = scope
           /\ snaps[Len(snaps)].symbol = symbol
        THEN [snaps EXCEPT ![Len(snaps)] = row]
        ELSE Append(snaps, row)

\* save_snapshot(scope, symbol, value_eur) at time t
save_snapshot(snaps, t, scope, symbol, value_eur) ==
    Append(snaps, [ts |-> IsoFormat(t), scope |-> scope, symbol |-> symbol,
                   value_eur |-> value_eur])

\* the dictionary compare returns
CompareResult(snap, now_value) ==
    IF snap = <<>>
    THEN [baseline_ts |-> <<>>, baseline_value_eur |-> NoneF,
          current_value_eur |-> now_value, change_abs |-> NoneF, change_pct |-> NoneF]
    ELSE LET base  == snap[1].value_eur
             delta == FSub(now_value, base)
         IN  [baseline_ts |-> <<snap[1].ts>>, baseline_value_eur |-> base,
              current_value_eur |-> now_value, change_abs |-> delta,
              change_pct |-> IF base = F(0, 1) THEN NoneF
                             ELSE FMulInt(FDiv(delta, base), 100)]

\* POST /snapshot {scope, symbol}: snapshot_now; utcnow_iso() stamps the row,
\* and the clock has moved on by one unit when the row is saved
SnapshotNow(scope, symbol, quotes) ==
    /\ now % PRICE_TTL_SEC < MaxSnapshots
    /\ \E v \in {portfolio_value_now(1, holdings, prices_cache, now, symbol, quotes,
                                        F(0, 1))} :
       LET saved == v.ok /\ ~BindsNull(v.total)
       IN  /\ prices_cache' = v.cache
           /\ snapshots' = IF saved
                           THEN save_snapshot(snapshots, now, scope, symbol, v.total)
                           ELSE snapshots
           /\ valCall' = [seq |-> 1 - valCall.seq, op |-> "snapshot", scope |-> scope,
                          symbol |-> symbol, failing |-> Failing(quotes), ok |-> saved,
                          value |-> IF saved THEN <<v.total>> ELSE <<>>,
                          result |-> <<>>]
           /\ now' = IF saved THEN now + 1 ELSE now
    /\ UNCHANGED <<holdings, txlog, req, started, resp, priceCall>>
    /\ UNCHANGED fxVars

\* GET /compare?scope=...&symbol=...
Compare(scope, symbol, quotes) ==
    /\ \E v \in {portfolio_value_now(1, holdings, prices_cache, now, symbol, quotes,
                                       F(0, 1))} :
       LET snap == get_latest_snapshot(snapshots, scope, symbol)
       IN  /\ prices_cache' = v.cache
           /\ valCall' = [seq |-> 1 - valCall.seq, op |-> "compare", scope |-> scope,
                          symbol |-> symbol, failing |-> Failing(quotes), ok |-> v.ok,
                          value |-> IF v.ok THEN <<v.total>> ELSE <<>>,
                          result |-> IF v.ok THEN <<CompareResult(snap, v.total)>>
                                     ELSE <<>>]
    /\ UNCHANGED <<now, holdings, txlog, req, started, resp, priceCall, snapshots>>
    /\ UNCHANGED fxVars

\* the price TTL elapses
ValTick ==
    /\ (now + PRICE_TTL_SEC) \div PRICE_TTL_SEC <= MaxValTtls
    /\ now' = now + PRICE_TTL_SEC
    /\ UNCHANGED fxVars
    /\ UNCHANGED pfVars
    /\ UNCHANGED valVars

ValInit ==
    /\ now = 0
    /\ eodhdKey = "token"
    /\ cache = << >>
    /\ fxCall = NoCall
    /\ holdings \in ValLedgers
    /\ txlog = << >>
    /\ prices_cache = << >>
    /\ req = [w \in Workers |-> Idle]
    /\ started = 0
    /\ resp = ""
    /\ priceCall = NoPriceCall
    /\ snapshots = << >>
    /\ valCall = NoValCall

ValNext ==
    \/ \E scope \in ValScopes, symbol \in ValFilters :
          \E quotes \in ValQuoteMaps(Asked(holdings, prices_cache, now, symbol)) :
             SnapshotNow(scope, symbol, quotes)
    \/ \E scope \in ValScopes, symbol \in ValFilters :
          \E quotes \in ValQuoteMaps(Asked(holdings, prices_cache, now, symbol)) :
             Compare(scope, symbol, quotes)
    \/ ValTick

SpecVal == ValInit /\ [][ValNext]_vars

----------------------------------------------------------------------------
(* portfolio service: properties of POST /tx                               *)

\* worker w takes a step of its request
Steps(w) == req'[w] # req[w]

\* worker w is about to run the body of upsert_holding on the row it selected
AtWrite(w) == req[w].pc = "write"

\* the (quantity, unit_cost) that running inp on the selected row gives, as
\* <<>> when it raises
Applied(row, inp) ==
    LET h0 == IF row = <<>> THEN << >>
              ELSE PutHolding(<< >>, inp.symbol, inp.market, row[1].quantity,
                              row[1].unit_cost_eur)
        u  == UpsertWrite(h0, row, inp)
    IN  IF u.err # "" THEN <<>> ELSE SelectHolding(u.h, inp.symbol)

\* C1: the holding change and the tx row of one POST /tx (quantity > 0) are
\* persisted together: a request that ends before its holding change leaves
\* both tables alone, and one that has committed its holding change appends its
\* tx row.
C1_HoldingAndTxTogether ==
    [][\A w \in Workers :
         /\ (AtWrite(w) /\ req'[w].pc = "idle") =>
               (holdings' = holdings /\ txlog' = txlog)
         /\ (req[w].pc = "record" /\ Steps(w) /\ req[w].inp.quantity > 0) =>
               txlog' = Append(txlog, req[w].inp)]_vars

\* C2: a sell with qty - delta < -epsilon fails with InsufficientQuantity and
\* leaves the holdings and the transaction log as they were.
C2_OversellRejected ==
    [][\A w \in Workers :
         (/\ AtWrite(w) /\ Steps(w)
          /\ req[w].inp.type = "sell"
          /\ req[w].row # <<>>
          /\ req[w].row[1].quantity - req[w].inp.quantity < -Eps) =>
            /\ resp' = "InsufficientQuantity"
            /\ req'[w].pc = "idle"
            /\ holdings' = holdings
            /\ txlog' = txlog]_vars

\* a sell of 10 was refused on a holding of 1
C2_Witness ==
    /\ resp = "InsufficientQuantity"
    /\ "AAA" \in DOMAIN holdings
    /\ holdings["AAA"].quantity = 1

\* C3: a sell for a symbol without a holding row fails with InvalidSell,
\* creates no row and appends no transaction.
C3_SellAbsentRejected ==
    [][\A w \in Workers :
         (/\ AtWrite(w) /\ Steps(w)
          /\ req[w].inp.type = "sell"
          /\ req[w].row = <<>>) =>
            /\ resp' = "InvalidSell"
            /\ req'[w].pc = "idle"
            /\ holdings' = holdings
            /\ txlog' = txlog]_vars

C3_Witness ==
    /\ resp = "InvalidSell"
    /\ "AAA" \notin DOMAIN holdings
    /\ txlog = << >>

\* C4: when two requests (quantity > 0) on one symbol have both committed
\* their holding change, the holding is what running one and then the other
\* gives.
C4_NoLostUpdate ==
    \A a, b \in Workers :
        (/\ a # b
         /\ req[a].pc \in {"record", "totals"}
         /\ req[b].pc \in {"record", "totals"}
         /\ req[a].inp.quantity > 0 /\ req[b].inp.quantity > 0
         /\ req[a].inp.symbol = req[b].inp.symbol) =>
            \E x, y \in {a, b} :
                /\ x # y
                /\ LET first == Applied(req[x].row, req[x].inp)
                   IN  /\ first # <<>>
                       /\ Applied(first, req[y].inp) =
                             SelectHolding(holdings, req[y].inp.symbol)

\* C5: every holding row has quantity >= 0 within epsilon.
C5_QuantityNonNegative ==
    \A sy \in DOMAIN holdings : holdings[sy].quantity >= -Eps

\* C6: a buy of delta > 0 at price p on a position (qty > 0, cost) writes
\* quantity qty + delta and unit cost (cost*qty + p*delta) / (qty + delta);
\* buy 10 @ 100 then buy 10 @ 200 from nothing gives 20 @ 150.
C6_WeightedAverage ==
    [][\A w \in Workers :
         (/\ AtWrite(w) /\ req'[w].pc = "record"
          /\ req[w].inp.type = "buy"
          /\ req[w].inp.quantity > 0
          /\ req[w].row # <<>>
          /\ req[w].row[1].quantity > 0) =>
            LET qty   == req[w].row[1].quantity
                cost  == req[w].row[1].unit_cost_eur
                delta == req[w].inp.quantity
                p     == req[w].inp.price_eur
                new   == holdings'[req[w].inp.symbol]
            IN  /\ new.quantity = qty + delta
                /\ new.unit_cost_eur.n * (cost.d * p.d) * (qty + delta)
                     = new.unit_cost_eur.d * (cost.n * qty * p.d + p.n * delta * cost.d)
                /\ (qty = 10 /\ cost = F(100, 1) /\ delta = 10 /\ p = F(200, 1)) =>
                      (new.quantity = 20 /\ new.unit_cost_eur = F(150, 1))]_vars

\* bought 10 @ 100, then 10 @ 200, from nothing
C6_Witness ==
    /\ Len(txlog) = 2
    /\ txlog[1].quantity = 10 /\ txlog[1].price_eur = F(100, 1) /\ txlog[1].type = "buy"
    /\ txlog[2].quantity = 10 /\ txlog[2].price_eur = F(200, 1) /\ txlog[2].type = "buy"
    /\ "AAA" \in DOMAIN holdings
    /\ holdings["AAA"].quantity = 20
    /\ holdings["AAA"].unit_cost_eur = F(150, 1)

RECURSIVE LogNet(_, _, _)
LogNet(log, symbol, i) ==
    IF i = 0 THEN 0
    ELSE LogNet(log, symbol, i - 1)
         + (IF log[i].symbol # symbol THEN 0
            ELSE IF log[i].type = "buy" THEN log[i].quantity
            ELSE -log[i].quantity)

\* C20: once every POST /tx has completed, a symbol has a holding row iff the
\* log has an entry for it, and the row's quantity is the log's buys minus
\* its sells.
C20_HoldingsMatchLog ==
    (\A w \in Workers : req[w].pc = "idle") =>
        \A sy \in Symbols :
            /\ sy \in DOMAIN holdings <=> \E i \in DOMAIN txlog : txlog[i].symbol = sy
            /\ sy \in DOMAIN holdings =>
                  holdings[sy].quantity = LogNet(txlog, sy, Len(txlog))

\* C21: a POST /tx (quantity > 0, a finite price) that reports an error,
\* whatever the cause, leaves the holdings table and the transaction log as
\* they were before the call (for a request that ran with no other request in
\* flight).
C21_ErrorLeavesTablesUnchanged ==
    [][\A w \in Workers :
         (/\ req[w].pc # "idle" /\ req'[w].pc = "idle"
          /\ resp' # "ok"
          /\ req[w].inp.quantity > 0 /\ IsNum(req[w].inp.price_eur)
          /\ req[w].before # <<>>
          /\ req[w].before[1].n = started) =>
            /\ holdings' = req[w].before[1].h
            /\ txlog' = req[w].before[1].log]_vars

----------------------------------------------------------------------------
(* portfolio service: properties of get_price                              *)

\* a get_price call is served by this step
PriceServed == priceCall'.seq # priceCall.seq

\* the key the served call asks for, and whether the row stored under it is
\* younger than the price TTL
PriceKey == <<priceCall'.symbol, priceCall'.market>>
FreshPrice ==
    /\ PriceKey \in DOMAIN prices_cache
    /\ now - IsoParse(prices_cache[PriceKey].fetched_at) < PRICE_TTL_SEC

\* the provider's answer carries no usable price: HTTP error, timeout, or no
\* number under close / previousClose
QuoteFails(r) ==
    \/ r.net = "exception"
    \/ r.status # 200
    \/ LET price == PyOr(r.close, r.previousClose)
       IN  price.t # "num" \/ ~IsNum(price.f)

C13_ProviderIffStale ==
    [][PriceServed =>
          /\ priceCall'.called <=> ~FreshPrice
          /\ FreshPrice =>
                /\ priceCall'.ok
                /\ priceCall'.res[1].price = prices_cache[PriceKey].price
                /\ priceCall'.res[1].ccy = prices_cache[PriceKey].ccy
                /\ priceCall'.res[1].source = <<"cache", prices_cache[PriceKey].source>>
                /\ prices_cache' = prices_cache
          /\ (~FreshPrice /\ priceCall'.ok) =>
                LET r == priceCall'.r[1]
                IN  /\ DOMAIN prices_cache' = DOMAIN prices_cache \cup {PriceKey}
                    /\ \A k \in DOMAIN prices_cache :
                          k # PriceKey => prices_cache'[k] = prices_cache[k]
                    /\ prices_cache'[PriceKey].price = PyOr(r.close, r.previousClose).f
                    /\ prices_cache'[PriceKey].price = priceCall'.res[1].price
                    /\ prices_cache'[PriceKey].ccy = priceCall'.res[1].ccy
                    /\ prices_cache'[PriceKey].source = "eodhd_realtime"
                    /\ prices_cache'[PriceKey].fetched_at = priceCall'.res[1].fetched_at]_vars

\* the provider was called for a stored row whose age is exactly the TTL (it
\* failed, so the row is still there)
C13_Witness ==
    /\ priceCall.called /\ ~priceCall.ok
    /\ <<priceCall.symbol, priceCall.market>> \in DOMAIN prices_cache
    /\ priceCall.at
         - IsoParse(prices_cache[<<priceCall.symbol, priceCall.market>>].fetched_at)
       = PRICE_TTL_SEC

\* C14: when the provider fails (HTTP error, timeout, no usable price)
\* get_price fails and the price cache is what it was.
C14_QuoteFailureNotCached ==
    [][(PriceServed /\ priceCall'.called /\ QuoteFails(priceCall'.r[1])) =>
          /\ ~priceCall'.ok
          /\ priceCall'.res = <<>>
          /\ prices_cache' = prices_cache]_vars

\* the provider failed while a stale row was stored
C14_Witness ==
    /\ priceCall.called /\ ~priceCall.ok
    /\ priceCall.r[1].status = 500
    /\ <<priceCall.symbol, priceCall.market>> \in DOMAIN prices_cache
    /\ prices_cache[<<priceCall.symbol, priceCall.market>>].price = F(100, 1)

\* C19: when get_price converts a USD price, fx_used is the rate the fx
\* service's get_usd_eur answers at that moment (here: its fresh cache entry).
C19_RateFromFxResolver ==
    [][(PriceServed /\ priceCall'.ok /\ priceCall'.res[1].ccy = "USD" /\ FreshEntry) =>
          priceCall'.res[1].fx_used = JsonLoads(cache[FxKey].v).rate]_vars

\* C22: after a get_price that fetched from the provider and succeeded, the
\* next get_price for the same (symbol, market), made less than the price TTL
\* later, is answered from the cache without calling the provider, whatever
\* timestamp the provider reported.
C22_CachedForTtlAfterFetch ==
    [][(/\ PriceServed
        /\ priceCall.called /\ priceCall.ok
        /\ priceCall.symbol = priceCall'.symbol
        /\ priceCall.market = priceCall'.market
        /\ now - priceCall.at < PRICE_TTL_SEC) =>
          ~priceCall'.called]_vars

----------------------------------------------------------------------------
(* portfolio service: properties of snapshot_now and compare               *)

\* a POST /snapshot or GET /compare is served by this step
ValServed == valCall'.seq # valCall.seq

\* the holdings the served call values: non-zero, and passing its filter
Included ==
    { sy \in DOMAIN holdings :
        /\ holdings[sy].quantity # 0
        /\ valCall'.symbol = <<>> \/ valCall'.symbol[1] = sy }

\* get_price fails for sy during the served call: no fresh row, and the
\* provider's request fails
QuoteResolverFails(sy) ==
    /\ sy \in valCall'.failing
    /\ ~(/\ <<sy, holdings[sy].market>> \in DOMAIN prices_cache
         /\ now - IsoParse(prices_cache[<<sy, holdings[sy].market>>].fetched_at)
              < PRICE_TTL_SEC)

\* C15: when get_price fails for a non-zero holding the filter includes, the
\* valuation fails as a whole: snapshot_now appends no row and returns no
\* value, compare returns no result.
C15_FailFast ==
    [][(ValServed /\ \E sy \in Included : QuoteResolverFails(sy)) =>
          /\ ~valCall'.ok
          /\ valCall'.value = <<>>
          /\ valCall'.result = <<>>
          /\ snapshots' = snapshots]_vars

\* a whole-portfolio snapshot failed on BBB after AAA had been priced
C15_Witness ==
    /\ valCall.op = "snapshot" /\ ~valCall.ok
    /\ valCall.symbol = <<>>
    /\ valCall.failing = {"BBB"}
    /\ holdings["BBB"].quantity # 0
    /\ DOMAIN prices_cache = {<<"AAA", "US">>}
    /\ snapshots = << >>

\* the rows taken for exactly the scope and symbol of the served call
SameScopeSymbol ==
    { i \in DOMAIN snapshots :
        snapshots[i].scope = valCall'.scope /\ snapshots[i].symbol = valCall'.symbol }

\* C16: compare(scope, symbol) has a null baseline and a current value when no
\* snapshot of that scope and symbol exists, and otherwise the baseline is the
\* snapshot taken last for that scope and symbol.
C16_BaselineIsLatestSnapshot ==
    [][(ValServed /\ valCall'.op = "compare" /\ valCall'.ok) =>
          LET res == valCall'.result[1]
          IN  /\ IsNum(res.current_value_eur)
              /\ SameScopeSymbol = {} =>
                    (res.baseline_ts = <<>> /\ IsNone(res.baseline_value_eur))
              /\ SameScopeSymbol # {} =>
                    LET last == CHOOSE i \in SameScopeSymbol :
                                    \A j \in SameScopeSymbol : j <= i
                    IN  /\ res.baseline_ts = <<snapshots[last].ts>>
                        /\ res.baseline_value_eur = snapshots[last].value_eur]_vars

\* compare answered with the second of two snapshots of its scope and symbol,
\* which differ in value
C16_Witness ==
    /\ valCall.op = "compare" /\ valCall.ok
    /\ Len(snapshots) = 2
    /\ snapshots[1].scope = valCall.scope /\ snapshots[1].symbol = valCall.symbol
    /\ snapshots[2].scope = valCall.scope /\ snapshots[2].symbol = valCall.symbol
    /\ snapshots[1].value_eur # snapshots[2].value_eur
    /\ valCall.result[1].baseline_value_eur = snapshots[2].value_eur
    /\ valCall.result[1].baseline_ts = <<snapshots[2].ts>>

\* C17: a successful snapshot_now appends exactly one row, with its scope,
\* symbol and the value it returns, and leaves the rows before it as they
\* were; compare writes no row.
C17_SnapshotAppendsOneRow ==
    [][ValServed =>
          /\ (valCall'.op = "snapshot" /\ valCall'.ok) =>
                /\ Len(snapshots') = Len(snapshots) + 1
                /\ SubSeq(snapshots', 1, Len(snapshots)) = snapshots
                /\ snapshots'[Len(snapshots')].scope = valCall'.scope
                /\ snapshots'[Len(snapshots')].symbol = valCall'.symbol
                /\ snapshots'[Len(snapshots')].value_eur = valCall'.value[1]
          /\ valCall'.op = "compare" => snapshots' = snapshots]_vars

\* a second snapshot of the same scope and symbol was taken
C17_Witness ==
    /\ valCall.op = "snapshot" /\ valCall.ok
    /\ Len(snapshots) = 2
    /\ snapshots[1].scope = snapshots[2].scope
    /\ snapshots[1].symbol = snapshots[2].symbol

====
